---- MODULE Spec2Model ----
(***************************************************************************)
(* A model of update-discord (run.py): the command line dispatch, the      *)
(* needs-update query, the environment bootstrap (check_apt, check_npm)    *)
(* and the install pipeline (_do_install), run repeatedly against one      *)
(* machine: its installed packages, its archive cache, the extracted       *)
(* bundle directory and the build directory.                               *)
(*                                                                         *)
(* A world is a record [sys, run, prev, n]: the machine, the running       *)
(* process, a summary of the process that ran before it, and the number    *)
(* of processes started.  Every step of the program is an operator from    *)
(* worlds to worlds; the actions apply them to the variable w.             *)
(***************************************************************************)
EXTENDS Integers, Sequences, FiniteSets, TLC

VARIABLES w, w2

vars == <<w, w2>>

\* Number of consecutive invocations of run.py that are explored.
MaxRuns == 2

DEB_PACKAGE == "discord-electron"

\* apt_get_installed_version returns None for a package that is not installed.
NoVersion == "none"

\* Strings of the shape \d+\.\d+\.\d+ that upstream may publish.
Versions == {"0.0.50", "0.0.51"}

\* The final URL of the redirected HEAD request: .../<name>-<ver>.<ext>
Urls ==
    { [name |-> "discord", ver |-> "0.0.50", ext |-> "tar.gz"],
      [name |-> "discord", ver |-> "0.0.51", ext |-> "tar.gz"],
      [name |-> "discord", ver |-> "0.51",   ext |-> "tar.gz"],
      [name |-> "discord", ver |-> "0.0.51", ext |-> "deb"] }

\* re.fullmatch(r'.*/((\S+)-(\d+\.\d+\.\d+)\.tar\.gz)', url)
UrlMatches(u) ==
    /\ u.name # ""
    /\ u.ver \in Versions
    /\ u.ext = "tar.gz"

AptTools == {"npm", "dpkg"}
NpmPackages == {"electron", "asar"}
\* Everything npm reports a version of: npm itself and the global packages.
NpmNames == {"npm"} \cup NpmPackages

\* DEBIAN/control of the repository, as a sequence of text fragments.
ControlTemplate ==
    <<"Package: discord-electron", "Version: ", "__VERSION__", "Architecture: amd64">>

\* The placeholder is left in place.
ReplaceVersion_keep(s, version) == s

\* s.replace('__VERSION__', version)
ReplaceVersion(s, version) ==
    [i \in DOMAIN s |-> IF s[i] = "__VERSION__" THEN version ELSE s[i]]

\* The Version field that dpkg-deb reads from a control file.
ControlVersion(c) ==
    IF \E i \in 1..(Len(c) - 1) : c[i] = "Version: "
    THEN c[(CHOOSE i \in 1..(Len(c) - 1) : c[i] = "Version: ") + 1]
    ELSE NoVersion

----------------------------------------------------------------------------
(* State *)

\* The extracted bundle Discord/: whether it exists, whether resources/app
\* exists, the state of resources/app.asar, and the versions whose files lie
\* under Discord/resources.
NoSrc == [exists |-> FALSE, app |-> FALSE, asar |-> "absent", files |-> {}]

\* The build directory: DEBIAN/control, how far the staging tree has come,
\* the versions whose files lie in its lib directory, and the version of the
\* .deb built from it.
NoBuild ==
    [exists |-> FALSE, control |-> <<>>, tree |-> "none", files |-> {},
     deb |-> NoVersion]

\* No request has been answered yet.
NoUrl == [name |-> "", ver |-> "", ext |-> ""]

\* A process: its place in the program (pc), its arguments, the locals of
\* _do_install, its exit status (-1 while it runs), and what it has done:
\* the side effects (log), the questions asked (prompts), the questions
\* answered no (declined) and the tools that returned nonzero (failed).
NoRun ==
    [pc |-> "idle", action |-> "none", silent |-> FALSE, full |-> FALSE,
     url |-> NoUrl, info |-> NoVersion,
     already |-> FALSE, forced |-> FALSE, must_download |-> FALSE,
     exit |-> -1, log |-> <<>>, prompts |-> <<>>, declined |-> <<>>,
     failed |-> <<>>]

NoPrev ==
    [valid |-> FALSE, action |-> "none", full |-> FALSE, info |-> NoVersion,
     exit |-> -1, fetched |-> FALSE, downloaded |-> FALSE, deleted |-> FALSE,
     installed |-> FALSE]

\* The tooling of a machine: nothing but dpkg yet, everything installed but
\* out of date, or everything up to date.
Tooling ==
    { [apt |-> {"dpkg"}, npm |-> [x \in NpmNames |-> "absent"]],
      [apt |-> AptTools, npm |-> [x \in NpmNames |-> "old"]],
      [apt |-> AptTools, npm |-> [x \in NpmNames |-> "latest"]] }

\* The machines a first invocation can find: with or without an older
\* package installed, with or without that version's archive in the cache.
InitSys ==
    { [installed |-> i,
       apt |-> t.apt,
       npm |-> t.npm,
       archives |-> c # "absent",
       cache |-> [v \in Versions |-> IF v = "0.0.50" THEN c ELSE "absent"],
       src |-> NoSrc,
       build |-> NoBuild] :
        i \in {NoVersion, "0.0.50"},
        t \in Tooling,
        c \in {"absent", "complete"} }

Idle(s) == [sys |-> s, run |-> NoRun, prev |-> NoPrev, n |-> 0]

----------------------------------------------------------------------------
(* Helpers on the running process *)

Emit(r, e) == [r EXCEPT !.log = Append(@, e)]

Ask(r, q) == [r EXCEPT !.prompts = Append(@, q)]

\* exit(code): the process ends with this status.
Exit(r, code) == [r EXCEPT !.pc = "done", !.exit = code]

\* click.confirm answered no.
Decline(r, q, on) ==
    [r EXCEPT !.declined = Append(@, [q |-> q, on |-> on, at |-> Len(r.log)])]

\* A tool returned a nonzero status.
ToolFailed(r, t) == [r EXCEPT !.failed = Append(@, [tool |-> t, at |-> Len(r.log)])]

\* subprocess.run(..., check=True) raised CalledProcessError, or a file
\* operation raised: the interpreter prints the traceback and exits 1.
Raise(r) == Exit(r, 1)

Goto(r, pc) == [r EXCEPT !.pc = pc]

----------------------------------------------------------------------------
(* main *)

\* The events of the log r.log that are e.
Count(r, e) == Len(SelectSeq(r.log, LAMBDA y : y = e))

Did(r, e) == Count(r, e) > 0

\* The tool t returned nonzero in this process.
Failed(r, t) == \E i \in DOMAIN r.failed : r.failed[i].tool = t

\* What is remembered of a process that has ended.
Summary(x) ==
    IF x.run.pc = "done"
    THEN [valid |-> TRUE, action |-> x.run.action, full |-> x.run.full,
          info |-> x.run.info, exit |-> x.run.exit,
          fetched |-> Did(x.run, "tar") \/ Did(x.run, "download"),
          downloaded |-> Did(x.run, "download") /\ ~Failed(x.run, "download"),
          deleted |-> Did(x.run, "unlink_archive"),
          installed |-> Did(x.run, "apt_install") /\ ~Failed(x.run, "apt_install")]
    ELSE x.prev

\* main(): parse the arguments and dispatch.
main(x, silent, needs) ==
    [x EXCEPT !.prev = Summary(x),
              !.n = @ + 1,
              !.run = [NoRun EXCEPT
                         !.action = IF needs THEN "needs-update" ELSE "install",
                         !.silent = silent,
                         !.full = ~needs /\ ~silent,
                         !.pc = IF needs THEN "needs_update"
                                ELSE IF ~silent THEN "check_apt_npm"
                                ELSE "resolve"]]

\* A package that is not installed is taken to need no update.
do_needs_update_absent(x, url) ==
    IF ~UrlMatches(url)
    THEN [x EXCEPT !.run = Exit([@ EXCEPT !.url = url], 255)]
    ELSE LET needs == x.sys.installed # NoVersion /\ x.sys.installed # url.ver
         IN [x EXCEPT !.run = Exit([@ EXCEPT !.url = url, !.info = url.ver],
                                   IF needs THEN 1 ELSE 0)]

\* _do_needs_update, with get_version_info inlined.
do_needs_update(x, url) ==
    IF ~UrlMatches(url)
    THEN [x EXCEPT !.run = Exit([@ EXCEPT !.url = url], 255)]
    ELSE LET needs == x.sys.installed # url.ver
         IN [x EXCEPT !.run = Exit([@ EXCEPT !.url = url, !.info = url.ver],
                                   IF needs THEN 1 ELSE 0)]

----------------------------------------------------------------------------
(* Environment bootstrap: check_apt, check_npm *)

\* One iteration of the loop of check_apt, for the package `name`.
\* `fresh` is the version of npm that apt brings.
check_apt(x, name, next, ans, ok, fresh) ==
    IF name \in x.sys.apt
    THEN [x EXCEPT !.run = Goto(@, next)]
    ELSE IF ~ans
    THEN [x EXCEPT !.run = Exit(Decline(Ask(@, "apt_install"), "apt_install", name), 0)]
    ELSE LET r == Emit(Ask(x.run, "apt_install"), "apt_install_tool")
         IN IF ok
            THEN [x EXCEPT !.sys.apt = @ \cup {name},
                           !.sys.npm = IF name = "npm" THEN [@ EXCEPT !["npm"] = fresh] ELSE @,
                           !.run = Goto(r, next)]
            ELSE [x EXCEPT !.run = Goto(ToolFailed(r, "apt_install_tool"), next)]

\* check_npm up to its first call: `npm --version`.
check_npm(x) ==
    IF "npm" \notin x.sys.apt
    THEN [x EXCEPT !.run = Exit(@, 0)]
    ELSE [x EXCEPT !.run = Goto(@, "npm_update_npm")]

npm_update_from_version(x, name, next, ans, ok) ==
    IF x.sys.npm[name] = "latest"
    THEN [x EXCEPT !.run = Goto(@, next)]
    ELSE IF ~ans
    THEN [x EXCEPT !.run = Goto(Decline(Ask(@, "npm_update"), "npm_update", name), next)]
    ELSE LET r == Emit(Ask(x.run, "npm_update"), "npm_install")
         IN IF ok
            THEN [x EXCEPT !.sys.npm[name] = "latest", !.run = Goto(r, next)]
            ELSE [x EXCEPT !.run = Raise(ToolFailed(r, "npm_install"))]

npm_install(x, name, next, ans, ok) ==
    IF x.sys.npm[name] # "absent"
    THEN npm_update_from_version(x, name, next, ans, ok)
    ELSE IF ~ans
    THEN [x EXCEPT !.run = Exit(Decline(Ask(@, "npm_install"), "npm_install", name), 0)]
    ELSE LET r == Emit(Ask(x.run, "npm_install"), "npm_install")
         IN IF ok
            THEN [x EXCEPT !.sys.npm[name] = "latest", !.run = Goto(r, next)]
            ELSE [x EXCEPT !.run = Raise(ToolFailed(r, "npm_install"))]

----------------------------------------------------------------------------
(* _do_install *)

\* The exit(-1) of get_version_info is missing: the run goes on.
resolve_noexit(x, url) ==
    [x EXCEPT !.run = Goto([@ EXCEPT !.url = url, !.info = url.ver,
                                     !.already = (url.ver = x.sys.installed)],
                           "confirm_build")]

\* get_version_info and the comparison with the installed version.
resolve(x, url) ==
    IF ~UrlMatches(url)
    THEN [x EXCEPT !.run = Exit([@ EXCEPT !.url = url], 255)]
    ELSE [x EXCEPT !.run = Goto([@ EXCEPT !.url = url, !.info = url.ver,
                                          !.already = (url.ver = x.sys.installed)],
                                "confirm_build")]

\* The answer to 'Build Debian package ...?' is not looked at.
confirm_build_ignored(x, ans) ==
    IF ~x.run.full
    THEN [x EXCEPT !.run = Goto(@, "fetch")]
    ELSE IF ~ans
    THEN [x EXCEPT !.run = Goto(Decline(Ask(@, "build"), "build", DEB_PACKAGE), "fetch")]
    ELSE [x EXCEPT !.run = Goto([Ask(@, "build") EXCEPT !.forced = TRUE], "fetch")]

\* if full and not click.confirm('Build Debian package ...'): exit()
confirm_build(x, ans) ==
    IF ~x.run.full
    THEN [x EXCEPT !.run = Goto(@, "fetch")]
    ELSE IF ~ans
    THEN [x EXCEPT !.run = Exit(Decline(Ask(@, "build"), "build", DEB_PACKAGE), 0)]
    ELSE [x EXCEPT !.run = Goto([Ask(@, "build") EXCEPT !.forced = TRUE], "fetch")]

DownloadResults == {"ok", "fail_nofile", "fail_partial"}

\* must_download is not computed: wget runs whatever the cache holds.
fetch_always(x, dl) ==
    LET v    == x.run.info
        r0   == IF x.sys.archives THEN x.run ELSE Emit(x.run, "mkdir_archives")
        r1   == [r0 EXCEPT !.must_download = TRUE]
    IN IF dl = "ok"
       THEN [x EXCEPT !.sys.archives = TRUE,
                      !.sys.cache[v] = "complete",
                      !.run = Goto(Emit(r1, "download"), "decompress")]
       ELSE [x EXCEPT !.sys.archives = TRUE,
                      !.sys.cache[v] = IF dl = "fail_partial" THEN "partial" ELSE @,
                      !.run = Raise(ToolFailed(Emit(r1, "download"), "download"))]

\* The archives directory, must_download and wget -c.
fetch(x, dl) ==
    LET v    == x.run.info
        r0   == IF x.sys.archives THEN x.run ELSE Emit(x.run, "mkdir_archives")
        must == x.sys.cache[v] = "absent"
        r1   == [r0 EXCEPT !.must_download = must]
    IN IF ~must
       THEN [x EXCEPT !.sys.archives = TRUE, !.run = Goto(r1, "decompress")]
       ELSE IF dl = "ok"
       THEN [x EXCEPT !.sys.archives = TRUE,
                      !.sys.cache[v] = "complete",
                      !.run = Goto(Emit(r1, "download"), "decompress")]
       ELSE [x EXCEPT !.sys.archives = TRUE,
                      !.sys.cache[v] = IF dl = "fail_partial" THEN "partial" ELSE "absent",
                      !.run = Raise(ToolFailed(Emit(r1, "download"), "download"))]

ExtractResults == {"ok", "fail_clean", "fail_partial"}

\* tar -xzf archive: a truncated archive cannot be extracted whole.  tar
\* writes into a Discord/ left by an earlier run without emptying it.
decompress(x, res) ==
    LET v   == x.run.info
        out == IF x.sys.cache[v] # "complete" /\ res = "ok" THEN "fail_partial" ELSE res
        r   == Emit(x.run, "tar")
        old == x.sys.src
    IN IF out = "ok"
       THEN [x EXCEPT !.sys.src = [exists |-> TRUE, app |-> old.app, asar |-> "vendor",
                                   files |-> old.files \cup {v}],
                      !.run = Goto(r, "patch_desktop")]
       ELSE IF out = "fail_partial"
       THEN [x EXCEPT !.sys.src = [old EXCEPT !.exists = TRUE, !.files = @ \cup {v}],
                      !.run = Raise(ToolFailed(r, "tar"))]
       ELSE [x EXCEPT !.run = Raise(ToolFailed(r, "tar"))]

\* Rewrite Exec= and Path= of Discord/discord.desktop.
patch_desktop(x, ok) ==
    IF ok
    THEN [x EXCEPT !.run = Goto(Emit(@, "write_desktop"), "asar_extract")]
    ELSE [x EXCEPT !.run = Raise(@)]

\* asar e resources/app.asar resources/app; app_asar.unlink()
asar_extract(x, ok) ==
    LET r == Emit(x.run, "asar_e")
    IN IF ok
       THEN [x EXCEPT !.sys.src = [@ EXCEPT !.app = TRUE, !.asar = "absent"],
                      !.run = Goto(r, "patch_app")]
       ELSE [x EXCEPT !.run = Raise(ToolFailed(r, "asar_e"))]

\* The substitutions in buildInfo.js, paths.js and autoStart/linux.js.
patch_app(x, ok) ==
    IF ok
    THEN [x EXCEPT !.run = Goto(Emit(@, "patch_app"), "asar_pack")]
    ELSE [x EXCEPT !.run = Raise(@)]

\* asar p resources/app resources/app.asar; rmtree(app)
asar_pack(x, ok) ==
    LET r == Emit(x.run, "asar_p")
    IN IF ok
       THEN [x EXCEPT !.sys.src = [@ EXCEPT !.app = FALSE, !.asar = "patched"],
                      !.run = Goto(r, "assemble")]
       ELSE [x EXCEPT !.run = Raise(ToolFailed(r, "asar_p"))]

\* The build directory is made anew and DEBIAN/control is filled in.
assemble(x) ==
    LET r0 == IF x.sys.build.exists THEN Emit(x.run, "rmtree_build") ELSE x.run
    IN [x EXCEPT !.sys.build = [exists |-> TRUE,
                                control |-> ReplaceVersion(ControlTemplate, x.run.info),
                                tree |-> "none", files |-> {}, deb |-> NoVersion],
                 !.run = Goto(Emit(r0, "mkdir_build"), "stage")]

StageResults == {"ok", "launcher", "lib", "dirs", "copy"}

\* The launcher, the three `install` calls, the copies and rmtree(src).
\* `res` names the call that fails, if any.  copytree copies all that lies
\* under Discord/resources into the lib directory of the staging tree.
stage(x, res) ==
    LET r0 == Emit(x.run, "write_launcher")
        r1 == Emit(r0, "install_launcher")
        r2 == Emit(r1, "install_lib")
        r3 == Emit(r2, "install_dirs")
        r4 == Emit(r3, "copy_assets")
    IN CASE res = "launcher" ->
              [x EXCEPT !.run = Raise(ToolFailed(r1, "install_launcher"))]
         [] res = "lib" ->
              [x EXCEPT !.sys.build.tree = "partial",
                        !.run = Raise(ToolFailed(r2, "install_lib"))]
         [] res = "dirs" ->
              [x EXCEPT !.sys.build.tree = "partial",
                        !.sys.build.files = x.sys.src.files,
                        !.run = Raise(ToolFailed(r3, "install_dirs"))]
         [] res = "copy" ->
              [x EXCEPT !.sys.build.tree = "partial",
                        !.sys.build.files = x.sys.src.files,
                        !.run = Raise(r3)]
         [] OTHER ->
              [x EXCEPT !.sys.build.tree = "full",
                        !.sys.build.files = x.sys.src.files,
                        !.sys.src = NoSrc,
                        !.run = Goto(Emit(r4, "rmtree_src"), "delete_archive")]

\* `full and click.confirm(...)`: the archive is deleted whoever fetched it.
delete_archive_any(x, ans) ==
    LET v == x.run.info
    IN IF ~x.run.full
       THEN [x EXCEPT !.run = Goto(@, "dpkg_deb")]
       ELSE IF ~ans
       THEN [x EXCEPT !.run = Goto(Decline(Ask(@, "delete_archive"), "delete_archive", v),
                                   "dpkg_deb")]
       ELSE LET cache == [x.sys.cache EXCEPT ![v] = "absent"]
                empty == \A u \in Versions : cache[u] = "absent"
                r0    == Emit(Ask(x.run, "delete_archive"), "unlink_archive")
                r1    == IF empty THEN Emit(r0, "rmdir_archives") ELSE r0
            IN [x EXCEPT !.sys.cache = cache,
                         !.sys.archives = ~empty,
                         !.run = Goto(r1, "dpkg_deb")]

\* if full and must_download and click.confirm('Delete archive?')
delete_archive(x, ans) ==
    LET v == x.run.info
    IN IF ~(x.run.full /\ x.run.must_download)
       THEN [x EXCEPT !.run = Goto(@, "dpkg_deb")]
       ELSE IF ~ans
       THEN [x EXCEPT !.run = Goto(Decline(Ask(@, "delete_archive"), "delete_archive", v),
                                   "dpkg_deb")]
       ELSE LET cache == [x.sys.cache EXCEPT ![v] = "absent"]
                empty == \A u \in Versions : cache[u] = "absent"
                r0    == Emit(Ask(x.run, "delete_archive"), "unlink_archive")
                r1    == IF empty THEN Emit(r0, "rmdir_archives") ELSE r0
            IN [x EXCEPT !.sys.cache = cache,
                         !.sys.archives = ~empty,
                         !.run = Goto(r1, "dpkg_deb")]

\* dpkg-deb without check=True: its status is ignored.
dpkg_deb_unchecked(x, ok) ==
    LET r == Emit(x.run, "dpkg_deb")
    IN IF ok
       THEN [x EXCEPT !.sys.build.deb = ControlVersion(x.sys.build.control),
                      !.run = Goto(r, "apt_install")]
       ELSE [x EXCEPT !.run = Goto(ToolFailed(r, "dpkg_deb"), "apt_install")]

\* dpkg-deb --build discord-electron
dpkg_deb(x, ok) ==
    LET r == Emit(x.run, "dpkg_deb")
    IN IF ok
       THEN [x EXCEPT !.sys.build.deb = ControlVersion(x.sys.build.control),
                      !.run = Goto(r, "apt_install")]
       ELSE [x EXCEPT !.run = Raise(ToolFailed(r, "dpkg_deb"))]

\* `full and click.confirm(...)`: a silent run installs nothing.
apt_install_full_only(x, ans, ok) ==
    LET r0 == IF x.run.full THEN Ask(x.run, "install") ELSE x.run
    IN IF ~x.run.full
       THEN [x EXCEPT !.run = Goto(r0, "finish")]
       ELSE IF ~ans
       THEN [x EXCEPT !.run = Goto(Decline(r0, "install", DEB_PACKAGE), "finish")]
       ELSE LET r1 == Emit(r0, "apt_install")
            IN IF ok
               THEN [x EXCEPT !.sys.installed = x.sys.build.deb,
                              !.run = Goto(r1, "finish")]
               ELSE [x EXCEPT !.run = Goto(ToolFailed(r1, "apt_install"), "finish")]

\* if not full or click.confirm('Install ...'): apt install --reinstall -y
apt_install(x, ans, ok) ==
    LET r0 == IF x.run.full THEN Ask(x.run, "install") ELSE x.run
    IN IF x.run.full /\ ~ans
       THEN [x EXCEPT !.run = Goto(Decline(r0, "install", DEB_PACKAGE), "finish")]
       ELSE LET r1 == Emit(r0, "apt_install")
            IN IF ok
               THEN [x EXCEPT !.sys.installed = x.sys.build.deb,
                              !.run = Goto(r1, "finish")]
               ELSE [x EXCEPT !.run = Goto(ToolFailed(r1, "apt_install"), "finish")]

\* if full: input(); then _do_install and main return.
finish(x) ==
    [x EXCEPT !.run = Exit(IF x.run.full THEN Ask(@, "finish") ELSE @, 0)]

----------------------------------------------------------------------------
(* The program run repeatedly on one machine *)

Init ==
    /\ w \in {Idle(s) : s \in InitSys}
    /\ w2 = w

Main ==
    /\ w.run.pc \in {"idle", "done"}
    /\ w.n < MaxRuns
    /\ \E silent \in BOOLEAN, needs \in BOOLEAN : w' = main(w, silent, needs)
    /\ UNCHANGED w2

NeedsUpdate ==
    /\ w.run.pc = "needs_update"
    /\ \E url \in Urls : w' = do_needs_update(w, url)
    /\ UNCHANGED w2

CheckApt ==
    /\ w.run.pc \in {"check_apt_npm", "check_apt_dpkg"}
    /\ \E ans \in BOOLEAN, ok \in BOOLEAN, fresh \in {"old", "latest"} :
          w' = IF w.run.pc = "check_apt_npm"
               THEN check_apt(w, "npm", "check_apt_dpkg", ans, ok, fresh)
               ELSE check_apt(w, "dpkg", "check_npm", ans, ok, fresh)
    /\ UNCHANGED w2

CheckNpm ==
    /\ w.run.pc = "check_npm"
    /\ w' = check_npm(w)
    /\ UNCHANGED w2

NpmUpdateNpm ==
    /\ w.run.pc = "npm_update_npm"
    /\ \E ans \in BOOLEAN, ok \in BOOLEAN :
          w' = npm_update_from_version(w, "npm", "npm_install_electron", ans, ok)
    /\ UNCHANGED w2

NpmInstall ==
    /\ w.run.pc \in {"npm_install_electron", "npm_install_asar"}
    /\ \E ans \in BOOLEAN, ok \in BOOLEAN :
          w' = IF w.run.pc = "npm_install_electron"
               THEN npm_install(w, "electron", "npm_install_asar", ans, ok)
               ELSE npm_install(w, "asar", "resolve", ans, ok)
    /\ UNCHANGED w2

Resolve ==
    /\ w.run.pc = "resolve"
    /\ \E url \in Urls : w' = resolve(w, url)
    /\ UNCHANGED w2

ConfirmBuild ==
    /\ w.run.pc = "confirm_build"
    /\ \E ans \in BOOLEAN : w' = confirm_build(w, ans)
    /\ UNCHANGED w2

Fetch ==
    /\ w.run.pc = "fetch"
    /\ \E dl \in DownloadResults : w' = fetch(w, dl)
    /\ UNCHANGED w2

Decompress ==
    /\ w.run.pc = "decompress"
    /\ \E res \in ExtractResults : w' = decompress(w, res)
    /\ UNCHANGED w2

PatchDesktop ==
    /\ w.run.pc = "patch_desktop"
    /\ \E ok \in BOOLEAN : w' = patch_desktop(w, ok)
    /\ UNCHANGED w2

AsarExtract ==
    /\ w.run.pc = "asar_extract"
    /\ \E ok \in BOOLEAN : w' = asar_extract(w, ok)
    /\ UNCHANGED w2

PatchApp ==
    /\ w.run.pc = "patch_app"
    /\ \E ok \in BOOLEAN : w' = patch_app(w, ok)
    /\ UNCHANGED w2

AsarPack ==
    /\ w.run.pc = "asar_pack"
    /\ \E ok \in BOOLEAN : w' = asar_pack(w, ok)
    /\ UNCHANGED w2

Assemble ==
    /\ w.run.pc = "assemble"
    /\ w' = assemble(w)
    /\ UNCHANGED w2

Stage ==
    /\ w.run.pc = "stage"
    /\ \E res \in StageResults : w' = stage(w, res)
    /\ UNCHANGED w2

DeleteArchive ==
    /\ w.run.pc = "delete_archive"
    /\ \E ans \in BOOLEAN : w' = delete_archive(w, ans)
    /\ UNCHANGED w2

DpkgDeb ==
    /\ w.run.pc = "dpkg_deb"
    /\ \E ok \in BOOLEAN : w' = dpkg_deb(w, ok)
    /\ UNCHANGED w2

AptInstall ==
    /\ w.run.pc = "apt_install"
    /\ \E ans \in BOOLEAN, ok \in BOOLEAN : w' = apt_install(w, ans, ok)
    /\ UNCHANGED w2

Finish ==
    /\ w.run.pc = "finish"
    /\ w' = finish(w)
    /\ UNCHANGED w2

Next ==
    \/ Main \/ NeedsUpdate
    \/ CheckApt \/ CheckNpm \/ NpmUpdateNpm \/ NpmInstall
    \/ Resolve \/ ConfirmBuild \/ Fetch \/ Decompress
    \/ PatchDesktop \/ AsarExtract \/ PatchApp \/ AsarPack
    \/ Assemble \/ Stage \/ DeleteArchive \/ DpkgDeb \/ AptInstall \/ Finish

Spec == Init /\ [][Next]_vars

----------------------------------------------------------------------------
(* One silent and one interactive process side by side, on two copies of   *)
(* the same machine and with the same answers from the network, the tools  *)
(* and the file system: w is run with --silent, w2 without.                *)

BootstrapPcs ==
    {"check_apt_npm", "check_apt_dpkg", "check_npm", "npm_update_npm",
     "npm_install_electron", "npm_install_asar"}

NoInput ==
    [url |-> NoUrl, ans |-> TRUE, ok |-> TRUE, dl |-> "ok", res |-> "ok",
     st |-> "ok", fresh |-> "old"]

\* What the environment can answer at the step pc: the redirect, the
\* operator's answer, and the result of the tool or file operation.
Inputs(pc) ==
    CASE pc \in {"check_apt_npm", "check_apt_dpkg"} ->
            {[NoInput EXCEPT !.ans = a, !.ok = o, !.fresh = f] :
                a \in BOOLEAN, o \in BOOLEAN, f \in {"old", "latest"}}
      [] pc \in {"npm_update_npm", "npm_install_electron", "npm_install_asar",
                 "apt_install"} ->
            {[NoInput EXCEPT !.ans = a, !.ok = o] : a \in BOOLEAN, o \in BOOLEAN}
      [] pc = "resolve" -> {[NoInput EXCEPT !.url = u] : u \in Urls}
      [] pc \in {"confirm_build", "delete_archive"} ->
            {[NoInput EXCEPT !.ans = a] : a \in BOOLEAN}
      [] pc = "fetch" -> {[NoInput EXCEPT !.dl = d] : d \in DownloadResults}
      [] pc = "decompress" -> {[NoInput EXCEPT !.res = r] : r \in ExtractResults}
      [] pc \in {"patch_desktop", "asar_extract", "patch_app", "asar_pack", "dpkg_deb"} ->
            {[NoInput EXCEPT !.ok = o] : o \in BOOLEAN}
      [] pc = "stage" -> {[NoInput EXCEPT !.st = r] : r \in StageResults}
      [] OTHER -> {NoInput}

\* The step of _do_install at which the process x stands.
RunStep(x, i) ==
    CASE x.run.pc = "check_apt_npm" ->
            check_apt(x, "npm", "check_apt_dpkg", i.ans, i.ok, i.fresh)
      [] x.run.pc = "check_apt_dpkg" ->
            check_apt(x, "dpkg", "check_npm", i.ans, i.ok, i.fresh)
      [] x.run.pc = "check_npm" -> check_npm(x)
      [] x.run.pc = "npm_update_npm" ->
            npm_update_from_version(x, "npm", "npm_install_electron", i.ans, i.ok)
      [] x.run.pc = "npm_install_electron" ->
            npm_install(x, "electron", "npm_install_asar", i.ans, i.ok)
      [] x.run.pc = "npm_install_asar" ->
            npm_install(x, "asar", "resolve", i.ans, i.ok)
      [] x.run.pc = "resolve" -> resolve(x, i.url)
      [] x.run.pc = "confirm_build" -> confirm_build(x, i.ans)
      [] x.run.pc = "fetch" -> fetch(x, i.dl)
      [] x.run.pc = "decompress" -> decompress(x, i.res)
      [] x.run.pc = "patch_desktop" -> patch_desktop(x, i.ok)
      [] x.run.pc = "asar_extract" -> asar_extract(x, i.ok)
      [] x.run.pc = "patch_app" -> patch_app(x, i.ok)
      [] x.run.pc = "asar_pack" -> asar_pack(x, i.ok)
      [] x.run.pc = "assemble" -> assemble(x)
      [] x.run.pc = "stage" -> stage(x, i.st)
      [] x.run.pc = "delete_archive" -> delete_archive(x, i.ans)
      [] x.run.pc = "dpkg_deb" -> dpkg_deb(x, i.ok)
      [] x.run.pc = "apt_install" -> apt_install(x, i.ans, i.ok)
      [] x.run.pc = "finish" -> finish(x)
      [] OTHER -> x

PairInit ==
    \E s \in InitSys :
        /\ w = main(Idle(s), TRUE, FALSE)
        /\ w2 = main(Idle(s), FALSE, FALSE)

\* The interactive process goes through check_apt and check_npm, which the
\* silent one skips.
PairBootstrap ==
    /\ w2.run.pc \in BootstrapPcs
    /\ \E i \in Inputs(w2.run.pc) : w2' = RunStep(w2, i)
    /\ UNCHANGED w

\* Both processes take the same step of _do_install with the same answers.
PairStep ==
    /\ w.run.pc = w2.run.pc
    /\ w.run.pc # "done"
    /\ \E i \in Inputs(w.run.pc) : w' = RunStep(w, i) /\ w2' = RunStep(w2, i)

\* The interactive process has ended at a question answered no, or in
\* check_npm, and the silent one goes on.
PairSolo ==
    /\ w2.run.pc = "done"
    /\ w.run.pc # "done"
    /\ \E i \in Inputs(w.run.pc) : w' = RunStep(w, i)
    /\ UNCHANGED w2

PairNext == PairBootstrap \/ PairStep \/ PairSolo

SpecPair == PairInit /\ [][PairNext]_vars

----------------------------------------------------------------------------
(* Properties *)

\* Side effects of check_apt and check_npm.
BootstrapEvents == {"apt_install_tool", "npm_install"}

\* The tools _do_install invokes.
PipelineTools ==
    {"download", "tar", "asar_e", "asar_p", "install_launcher", "install_lib",
     "install_dirs", "dpkg_deb", "apt_install"}

\* Download, decompression, patching, packaging and installation.
BuildEvents ==
    {"download", "tar", "write_desktop", "asar_e", "patch_app", "asar_p",
     "dpkg_deb", "apt_install"}

Events(r) == {r.log[i] : i \in DOMAIN r.log}

Asked(r, q) == \E i \in DOMAIN r.prompts : r.prompts[i] = q

Declined(r, q) == \E i \in DOMAIN r.declined : r.declined[i].q = q

Accepted(r, q) == Asked(r, q) /\ ~Declined(r, q)

InstallRun == w.run.action = "install"

NeedsRun == w.run.action = "needs-update"

BadUrl(r) == r.url # NoUrl /\ ~UrlMatches(r.url)

\* The machine changes only in steps that log a side effect.
Audited == w'.sys # w.sys => Len(w'.run.log) > Len(w.run.log)

\* C1. A run of the default action that finds the resolved version installed,
\* and in which no rebuild was asked for, downloads, decompresses, patches,
\* packages and installs nothing.
C1_ShortCircuit ==
    (InstallRun /\ w.run.already /\ ~w.run.forced)
        => Events(w.run) \cap BuildEvents = {}

\* What holds in every state of a needs-update process.
C2_NeedsUpdateInv ==
    NeedsRun =>
        /\ w.run.pc \in {"needs_update", "done"}
        /\ w.run.log = <<>>
        /\ w.run.prompts = <<>>
        /\ (w.run.pc = "done" /\ UrlMatches(w.run.url)) =>
              w.run.exit = IF w.sys.installed = w.run.url.ver THEN 0 ELSE 1

\* C2. needs-update only resolves and compares: it exits 0 when the installed
\* version is the resolved one and 1 otherwise (also when nothing is
\* installed), never enters the bootstrap or the pipeline, asks nothing and
\* leaves the machine as it was, with or without --silent.
C2_NeedsUpdate ==
    /\ []C2_NeedsUpdateInv
    /\ [][(NeedsRun /\ w'.run.action = "needs-update") => w'.sys = w.sys]_vars

C2_Witness ==
    /\ NeedsRun /\ w.run.silent /\ w.run.pc = "done"
    /\ w.sys.installed = NoVersion /\ w.run.exit = 1

\* C3 as stated. When the run before this one downloaded the archive of the
\* same version, this run downloads nothing: the two fetches make one download.
C3_OneDownload ==
    (InstallRun /\ w.prev.downloaded /\ w.prev.info = w.run.info)
        => ~Did(w.run, "download")

\* At most one download in a run, and none after a run that left the archive.
C3_CacheHitInv ==
    /\ Count(w.run, "download") <= 1
    /\ (InstallRun /\ w.prev.downloaded /\ ~w.prev.deleted /\ w.prev.info = w.run.info)
          => ~Did(w.run, "download")

\* C3 as amended. wget runs only when the archive of the resolved version is
\* absent from the cache, at most once in a run; and a run that follows one
\* that downloaded the same version and did not delete the archive on request
\* downloads nothing.
C3_CacheCorrect ==
    /\ []C3_CacheHitInv
    /\ [][Count(w'.run, "download") > Count(w.run, "download")
            => w.sys.cache[w.run.info] = "absent"]_vars

C3_Witness ==
    /\ InstallRun /\ w.prev.downloaded /\ ~w.prev.deleted
    /\ w.prev.info = w.run.info
    /\ Did(w.run, "tar") /\ ~w.run.must_download

\* C4. When a run of the default action has ended, the extracted bundle
\* directory (Discord) and the unpacked resources/app inside it are gone.
C4_TempRemoved ==
    (InstallRun /\ w.run.pc = "done") => (~w.sys.src.exists /\ ~w.sys.src.app)

\* C5. A tool of the pipeline that returns nonzero ends the run there: no
\* later step, and a nonzero exit status.
C5_ToolFailureFatal ==
    \A i \in DOMAIN w.run.failed :
        w.run.failed[i].tool \in PipelineTools =>
            /\ w.run.pc = "done"
            /\ w.run.exit \notin {-1, 0}
            /\ Len(w.run.log) = w.run.failed[i].at

\* C6 as stated. A redirect URL of the wrong shape ends the run with a nonzero
\* status before any side effect, in every mode.
C6_NoEffectBeforeResolution ==
    BadUrl(w.run) =>
        /\ w.run.pc = "done"
        /\ w.run.exit = 255
        /\ w.run.log = <<>>

\* What holds once the redirect URL has been found to have the wrong shape.
C6_BadUrlInv ==
    BadUrl(w.run) =>
        /\ w.run.pc = "done"
        /\ w.run.exit = 255
        /\ Events(w.run) \subseteq BootstrapEvents
        /\ ~w.run.full => w.run.log = <<>>

\* C6 as amended. A redirect URL of the wrong shape ends the run with a nonzero
\* status; needs-update and the --silent default action have had no side
\* effect by then, and the interactive default action none but those of
\* check_apt and check_npm, which run before the resolution.
C6_BadUrlFatal == []C6_BadUrlInv /\ [][Audited]_vars

C6_Witness ==
    /\ InstallRun /\ w.run.full /\ BadUrl(w.run)
    /\ Did(w.run, "apt_install_tool")

\* C8 as stated. After a confirmation is answered no, the run has no further
\* side effect and does not end in failure.
C8_DeclineAborts ==
    \A i \in DOMAIN w.run.declined :
        /\ Len(w.run.log) = w.run.declined[i].at
        /\ w.run.pc = "done" => w.run.exit = 0

\* The confirmations whose rejection calls exit().
RequiredPrompts == {"apt_install", "npm_install", "build"}

\* C8 as amended. Answering no to the installation of a required tool (apt or
\* npm) or to the build ends the run at once, with status 0 and no further
\* side effect; answering no to an npm update, to the deletion of the archive
\* or to the installation of the package skips that step only.
C8_DeclineRequiredAborts ==
    \A i \in DOMAIN w.run.declined :
        LET d == w.run.declined[i]
        IN /\ d.q \in RequiredPrompts =>
                /\ w.run.pc = "done"
                /\ w.run.exit = 0
                /\ Len(w.run.log) = d.at
           /\ d.q = "npm_update" => w.sys.npm[d.on] = "old"
           /\ d.q = "delete_archive" =>
                /\ ~Did(w.run, "unlink_archive")
                /\ w.sys.cache[d.on] # "absent"
           /\ d.q = "install" => ~Did(w.run, "apt_install")

C8_Witness ==
    /\ Declined(w.run, "build") /\ Declined(w.run, "npm_update")
    /\ w.run.pc = "done" /\ w.run.exit = 0
    /\ Did(w.run, "npm_install")

\* C9. The archive of this run's version is deleted only after the package
\* manager has installed the package of this run, and the cache directory is
\* removed only when it is empty.
C9_DeleteAfterInstall ==
    /\ Did(w.run, "unlink_archive") =>
          (Did(w.run, "apt_install") /\ ~Failed(w.run, "apt_install"))
    /\ ~w.sys.archives => \A v \in Versions : w.sys.cache[v] = "absent"

\* C10. needs-update exits 1 while the installed version differs from the
\* resolved one; the package a run installs carries the resolved version, the
\* placeholder of the control template being replaced by it; and a
\* needs-update that follows such a run with the upstream unchanged exits 0.
C10_Upgrade ==
    /\ (NeedsRun /\ w.run.pc = "done" /\ UrlMatches(w.run.url)
            /\ w.sys.installed # w.run.info) => w.run.exit = 1
    /\ (InstallRun /\ Did(w.run, "apt_install") /\ ~Failed(w.run, "apt_install")) =>
          /\ w.sys.installed = w.run.info
          /\ \A i \in DOMAIN w.sys.build.control :
                w.sys.build.control[i] # "__VERSION__"
    /\ (NeedsRun /\ w.run.pc = "done" /\ w.prev.action = "install"
            /\ w.prev.installed /\ w.prev.info = w.run.info) => w.run.exit = 0

C10_Witness ==
    /\ NeedsRun /\ w.run.pc = "done" /\ w.run.exit = 0
    /\ w.prev.action = "install" /\ w.prev.installed
    /\ w.prev.info = "0.0.51" /\ w.run.info = "0.0.51"

\* C11. The staging tree a run hands to dpkg-deb holds the files of the
\* resolved version's archive and the control file made from the template,
\* and nothing else, whatever earlier runs left on disk.
C11_FreshTree ==
    (InstallRun /\ Did(w.run, "rmtree_src") /\ w.sys.build.tree = "full") =>
        /\ w.sys.build.files = {w.run.info}
        /\ w.sys.build.control = ReplaceVersion(ControlTemplate, w.run.info)

\* The side effects of _do_install in the order of its statements.
Order ==
    <<"mkdir_archives", "download", "tar", "write_desktop", "asar_e",
      "patch_app", "asar_p", "rmtree_build", "mkdir_build", "write_launcher",
      "install_launcher", "install_lib", "install_dirs", "copy_assets",
      "rmtree_src", "unlink_archive", "rmdir_archives", "dpkg_deb",
      "apt_install">>

Pos(e) == CHOOSE k \in DOMAIN Order : Order[k] = e

\* The tools whose success the install depends on.
InstallNeeds == {"tar", "asar_e", "asar_p", "dpkg_deb"}

\* C12. In a run of the default action the pipeline's side effects follow
\* resolution and the bootstrap and occur in the order download, decompress,
\* patch (desktop entry, unpack, substitutions, repack), assemble, package,
\* install, each at most once; apt install runs only after tar, asar e,
\* asar p and dpkg-deb have run and succeeded in the same run, on the package
\* built from the resolved version.
C12_StepOrder ==
    InstallRun =>
        /\ \A i \in DOMAIN w.run.log :
              w.run.log[i] \notin BootstrapEvents =>
                  /\ w.run.info # NoVersion
                  /\ \E k \in DOMAIN Order : Order[k] = w.run.log[i]
                  /\ i < Len(w.run.log) =>
                        /\ w.run.log[i + 1] \notin BootstrapEvents
                        /\ Pos(w.run.log[i]) < Pos(w.run.log[i + 1])
        /\ Did(w.run, "apt_install") =>
              /\ \A t \in InstallNeeds : Did(w.run, t) /\ ~Failed(w.run, t)
              /\ Did(w.run, "patch_app") /\ Did(w.run, "write_desktop")
              /\ w.sys.build.tree = "full"
              /\ w.sys.build.deb = w.run.info

\* An interactive run that installed the package it built.
C12_Witness ==
    /\ InstallRun /\ w.run.full /\ w.run.pc = "done"
    /\ Did(w.run, "download") /\ Did(w.run, "apt_install")
    /\ ~Failed(w.run, "apt_install")
    /\ w.sys.installed = w.run.info

\* C13. An archive that a run finds in the cache and decompresses without
\* downloading it is one that a download wrote to the end.
C13_CompleteCacheHit ==
    (InstallRun /\ Did(w.run, "tar") /\ ~w.run.must_download) =>
        w.sys.cache[w.run.info] = "complete"

\* What holds in every state of a run that unlinked the archive, and of the
\* archives directory.
C14_DeleteInv ==
    /\ Did(w.run, "unlink_archive") =>
          /\ InstallRun /\ w.run.full /\ w.run.must_download
          /\ Did(w.run, "download") /\ ~Failed(w.run, "download")
          /\ Accepted(w.run, "delete_archive")
    /\ Did(w.run, "rmdir_archives") => Did(w.run, "unlink_archive")
    /\ ~w.sys.archives => \A v \in Versions : w.sys.cache[v] = "absent"

\* A step changes the cached archive of v only in a run of the default
\* action that resolved v and found no archive of v in the cache.
C14_CacheStep ==
    \A v \in Versions :
        w'.sys.cache[v] # w.sys.cache[v] =>
            /\ w'.run.action = "install" /\ w'.run.info = v
            /\ w'.run.must_download
            /\ \/ w.sys.cache[v] = "absent"
               \/ /\ w'.sys.cache[v] = "absent"
                  /\ Did(w.run, "download") /\ w'.run.full

\* A step removes the archives directory only when it has just unlinked the
\* last archive in it.
C14_DirStep ==
    (w.sys.archives /\ ~w'.sys.archives) =>
        /\ Count(w'.run, "unlink_archive") > Count(w.run, "unlink_archive")
        /\ \A v \in Versions : w'.sys.cache[v] = "absent"

\* C14. A run unlinks an archive only if it downloaded that archive itself,
\* in interactive mode and on a yes to 'Delete archive?'; an archive that was
\* in the cache before the run's download step stays as it was, archives of
\* other versions are never changed, and the archives directory is removed
\* only when no archive is left in it.
C14_DeleteOnlyOwn ==
    /\ []C14_DeleteInv
    /\ [][C14_CacheStep /\ C14_DirStep]_vars

\* An interactive run that found its archive in the cache and came to the
\* packaging step with the archive still in place.
C14_Witness ==
    /\ InstallRun /\ w.run.full /\ ~w.run.must_download
    /\ Did(w.run, "dpkg_deb") /\ ~Did(w.run, "unlink_archive")
    /\ w.sys.cache[w.run.info] = "complete"
    /\ w.sys.archives

----------------------------------------------------------------------------
(* Properties of the pair of processes *)

\* What a run of _do_install leaves behind: its side effects after the
\* bootstrap, its exit status, and the machine apart from the tooling.
Effects(x) ==
    [log |-> SelectSeq(x.run.log, LAMBDA e : e \notin BootstrapEvents),
     exit |-> x.run.exit,
     installed |-> x.sys.installed,
     archives |-> x.sys.archives,
     cache |-> x.sys.cache,
     src |-> x.sys.src,
     build |-> x.sys.build]

BothDone ==
    /\ w.run.pc = "done" /\ w2.run.pc = "done"
    /\ w2.run.url # NoUrl

\* The silent process asks nothing and skips check_apt and check_npm.
SilentSkips ==
    /\ w.run.prompts = <<>>
    /\ w.run.pc \notin BootstrapPcs
    /\ Events(w.run) \cap BootstrapEvents = {}

\* C7 as stated. The silent run leaves what an interactive run leaves in which
\* the build, the deletion of the archive and the installation are all
\* answered yes.
C7_SilentIsAllYes ==
    /\ SilentSkips
    /\ (BothDone /\ ~Declined(w2.run, "build") /\ ~Declined(w2.run, "delete_archive")
            /\ ~Declined(w2.run, "install")) => Effects(w) = Effects(w2)

\* C7 as amended. The silent run skips the bootstrap, asks nothing, and leaves
\* what an interactive run leaves in which the build and the installation are
\* answered yes and the deletion of the archive is answered no.
C7_SilentKeepsArchive ==
    /\ SilentSkips
    /\ (BothDone /\ ~Declined(w2.run, "build") /\ ~Accepted(w2.run, "delete_archive")
            /\ ~Declined(w2.run, "install")) => Effects(w) = Effects(w2)

C7_Witness ==
    /\ BothDone
    /\ Accepted(w2.run, "build") /\ Declined(w2.run, "delete_archive")
    /\ Accepted(w2.run, "install") /\ Asked(w2.run, "finish")
    /\ Did(w.run, "download") /\ Did(w.run, "apt_install")
    /\ w.sys.installed = w.run.info

====
